---- MODULE Spec2Model ----
(***************************************************************************)
(* Model of src/app.py: the Datacrumbs sales assistant (Streamlit).        *)
(* One script run (rerun) is one handler.  The session state, the          *)
(* st.cache_data memo of load_website_content, the request handed to the   *)
(* QA chain and the position of the script around the blocking model call  *)
(* are the state.  Texts that the code inspects character by character     *)
(* (exception messages, page content) are sequences of one-character       *)
(* strings; texts the code only passes along are TLA+ strings.             *)
(***************************************************************************)
EXTENDS Integers, Sequences, FiniteSets, TLC

VARIABLES
    api_key,          \* os.getenv('GROQ_API_KEY') is set
    session_keys,     \* keys present in st.session_state
    website_loaded,   \* st.session_state.website_loaded
    documents,        \* st.session_state.documents (page_content of each chunk)
    chat_history,     \* st.session_state.chat_history: <<question, answer>> pairs
    cache,            \* st.cache_data memo of load_website_content()
    fetch_log,        \* outcomes of the loader.load() calls that really ran
    pc,               \* "idle" | "awaiting" (chain.run in flight)
    current_question, \* current_question of the running / last script run
    request,          \* arguments of the last chain.run call
    outcome,          \* what the last chain.run call did
    split_pc,         \* text splitter harness: "input" | "done"
    split_in,         \* text given to the splitter
    split_out         \* chunks it produced

vars == <<api_key, session_keys, website_loaded, documents, chat_history, cache,
          fetch_log, pc,
          current_question, request, outcome, split_pc, split_in, split_out>>

appVars == <<api_key, session_keys, website_loaded, documents, chat_history, cache,
             fetch_log, pc,
             current_question, request, outcome>>

splitVars == <<split_pc, split_in, split_out>>

-----------------------------------------------------------------------------
(* Bounds *)

MaxHistory == 2

MaxTextLen == 4

-----------------------------------------------------------------------------
(* Character strings *)

UpperAlpha == <<"A", "B", "C", "D", "E", "F", "G", "H", "I", "J", "K", "L", "M", "N", "O", "P", "Q", "R", "S", "T", "U", "V", "W", "X", "Y", "Z">>

LowerAlpha == <<"a", "b", "c", "d", "e", "f", "g", "h", "i", "j", "k", "l", "m", "n", "o", "p", "q", "r", "s", "t", "u", "v", "w", "x", "y", "z">>

LowerChar(c) ==
    IF \E i \in 1..Len(UpperAlpha) : UpperAlpha[i] = c
    THEN LowerAlpha[CHOOSE i \in 1..Len(UpperAlpha) : UpperAlpha[i] = c]
    ELSE c

Lower(s) == [i \in 1..Len(s) |-> LowerChar(s[i])]

Contains(sub, s) ==
    \E i \in 0..(Len(s) - Len(sub)) :
        \A j \in 1..Len(sub) : s[i + j] = sub[j]

KwQuota == <<"q", "u", "o", "t", "a">>

KwLimit == <<"l", "i", "m", "i", "t">>

KwRate == <<"r", "a", "t", "e">>

KwApi == <<"a", "p", "i">>

KwKey == <<"k", "e", "y">>

KwTimeout == <<"t", "i", "m", "e", "o", "u", "t">>

MsgTimedOut == <<"R", "e", "q", "u", "e", "s", "t", " ", "t", "i", "m", "e", "d", " ", "o", "u", "t", ".">>

MsgReadTimeout == <<"R", "e", "a", "d", " ", "T", "i", "m", "e", "o", "u", "t">>

MsgTimeoutGenerate == <<"t", "i", "m", "e", "o", "u", "t", " ", "i", "n", " ", "g", "e", "n", "e", "r", "a", "t", "e">>

MsgRateLimit == <<"R", "a", "t", "e", " ", "l", "i", "m", "i", "t">>

MsgApiKey == <<"I", "n", "v", "a", "l", "i", "d", " ", "A", "P", "I", " ", "K", "e", "y">>

MsgBoom == <<"b", "o", "o", "m">>

-----------------------------------------------------------------------------
(* CharacterTextSplitter(chunk_size=2000, chunk_overlap=200,               *)
(* separator="\n\n") as configured in load_website_content                 *)

ChunkSize == 2000

ChunkOverlap == 200

Separator == <<"\n", "\n">>

Whitespace == {" ", "\n", "\t", "\r"}

Min(a, b) == IF a < b THEN a ELSE b

SepAt(text, i) ==
    /\ i + Len(Separator) - 1 <= Len(text)
    /\ SubSeq(text, i, i + Len(Separator) - 1) = Separator

NextSep(text, from) ==
    IF \E i \in from..Len(text) : SepAt(text, i)
    THEN CHOOSE i \in from..Len(text) :
            SepAt(text, i) /\ \A j \in from..(i - 1) : ~SepAt(text, j)
    ELSE 0

RECURSIVE ReSplit(_, _)
ReSplit(text, from) ==
    LET i == NextSep(text, from)
    IN  IF i = 0
        THEN <<SubSeq(text, from, Len(text))>>
        ELSE <<SubSeq(text, from, i - 1)>> \o ReSplit(text, i + Len(Separator))

NonEmptyPiece(s) == s # <<>>

\* re.split(separator, text) with the empty pieces dropped
SplitTextWithRegex(text) == SelectSeq(ReSplit(text, 1), NonEmptyPiece)

RECURSIVE Join(_, _)
Join(pieces, sep) ==
    IF pieces = <<>> THEN <<>>
    ELSE IF Len(pieces) = 1 THEN pieces[1]
    ELSE pieces[1] \o sep \o Join(Tail(pieces), sep)

Strip(s) ==
    LET keep == {i \in 1..Len(s) : s[i] \notin Whitespace}
    IN  IF keep = {} THEN <<>>
        ELSE SubSeq(s, CHOOSE i \in keep : \A j \in keep : i <= j,
                       CHOOSE i \in keep : \A j \in keep : j <= i)

\* separator.join(docs).strip(); the empty sequence stands for None
JoinDocs(current_doc) == Strip(Join(current_doc, Separator))

SepLenIf(cond) == IF cond THEN Len(Separator) ELSE 0

RECURSIVE PopLoop(_, _, _)
PopLoop(current_doc, total, len) ==
    IF \/ total > ChunkOverlap
       \/ /\ total + len + SepLenIf(Len(current_doc) > 0) > ChunkSize
          /\ total > 0
    THEN PopLoop(Tail(current_doc),
                 total - (Len(current_doc[1]) + SepLenIf(Len(current_doc) > 1)),
                 len)
    ELSE [current_doc |-> current_doc, total |-> total]

RECURSIVE MergeLoop(_, _, _, _, _)
MergeLoop(splits, i, docs, current_doc, total) ==
    IF i > Len(splits)
    THEN IF JoinDocs(current_doc) # <<>>
         THEN Append(docs, JoinDocs(current_doc))
         ELSE docs
    ELSE
      LET d == splits[i]
          len == Len(d)
          flush == /\ total + len + SepLenIf(Len(current_doc) > 0) > ChunkSize
                   /\ Len(current_doc) > 0
          docs1 == IF flush /\ JoinDocs(current_doc) # <<>>
                   THEN Append(docs, JoinDocs(current_doc))
                   ELSE docs
          kept == IF flush
                  THEN PopLoop(current_doc, total, len)
                  ELSE [current_doc |-> current_doc, total |-> total]
          current1 == Append(kept.current_doc, d)
      IN  MergeLoop(splits, i + 1, docs1, current1,
                    kept.total + len + SepLenIf(Len(current1) > 1))

MergeSplits(splits) == MergeLoop(splits, 1, <<>>, <<>>, 0)

SplitText(text) == MergeSplits(SplitTextWithRegex(text))

RECURSIVE SplitDocuments(_)
SplitDocuments(docs) ==
    IF docs = <<>> THEN <<>>
    ELSE SplitText(docs[1]) \o SplitDocuments(Tail(docs))

-----------------------------------------------------------------------------
(* load_website_content and its st.cache_data memo *)

PageAB == <<"a", "\n", "\n", "b">>

PageBlank == <<" ">>

\* what loader.load() can do: raise, return no documents, return one page
LoaderOutcomes ==
    {[kind |-> "raise", text |-> <<>>], [kind |-> "none", text |-> <<>>]}
    \cup {[kind |-> "page", text |-> t] : t \in {PageAB, PageBlank}}

load_website_content(lo) ==
    IF lo.kind = "raise" THEN <<>>
    ELSE IF lo.kind = "none" THEN <<>>
    ELSE SplitDocuments(<<lo.text>>)

NoCache == [set |-> FALSE, value |-> <<>>]

\* the function without its @st.cache_data decorator: every call runs the body
CachedLoad_NoMemo(s, lo) ==
    [docs |-> load_website_content(lo),
     cache |-> [set |-> TRUE, value |-> load_website_content(lo)],
     fetch_log |-> Append(s.fetch_log, lo)]

\* a call through the st.cache_data wrapper: the body runs on a miss only
CachedLoad(s, lo) ==
    IF s.cache.set
    THEN [docs |-> s.cache.value, cache |-> s.cache, fetch_log |-> s.fetch_log]
    ELSE [docs |-> load_website_content(lo),
          cache |-> [set |-> TRUE, value |-> load_website_content(lo)],
          fetch_log |-> Append(s.fetch_log, lo)]

-----------------------------------------------------------------------------
(* The session: st.session_state, with the memo and the log of real fetches *)

AllKeys == {"website_loaded", "documents", "chat_history"}

\* initialisation that assigns documents = [] on every run, present or not
SessionStateInit_ResetsDocuments(s) ==
    [s EXCEPT !.website_loaded = IF "website_loaded" \in s.keys THEN @ ELSE FALSE,
              !.documents = <<>>,
              !.chat_history = IF "chat_history" \in s.keys THEN @ ELSE <<>>,
              !.keys = AllKeys]

\* "Initialize session state": a key is set only when it is missing
SessionStateInit(s) ==
    [s EXCEPT !.website_loaded = IF "website_loaded" \in s.keys THEN @ ELSE FALSE,
              !.documents = IF "documents" \in s.keys THEN @ ELSE <<>>,
              !.chat_history = IF "chat_history" \in s.keys THEN @ ELSE <<>>,
              !.keys = AllKeys]

\* "Load website content if not already loaded"
ContentLoad(s, lo) ==
    IF s.website_loaded
    THEN s
    ELSE LET r == CachedLoad(s, lo)
         IN  IF r.docs # <<>>
             THEN [s EXCEPT !.documents = r.docs, !.website_loaded = TRUE,
                            !.cache = r.cache, !.fetch_log = r.fetch_log]
             ELSE [s EXCEPT !.cache = r.cache, !.fetch_log = r.fetch_log]

\* the script from its top down to the chat interface
ScriptTop(s, lo) == ContentLoad(SessionStateInit(s), lo)

\* chat_history assigned the new entry instead of being appended to
AppendAndRerun_Overwrite(s, q, a, lo) ==
    ScriptTop([s EXCEPT !.chat_history = <<<<q, a>>>>], lo)

\* st.session_state.chat_history.append((current_question, answer)); st.rerun():
\* the rerun fires no widget, so it ends after the top of the script
AppendAndRerun(s, q, a, lo) ==
    ScriptTop([s EXCEPT !.chat_history = Append(@, <<q, a>>)], lo)

-----------------------------------------------------------------------------
(* get_answer *)

Answer(template, response, details) ==
    [template |-> template, response |-> response, details |-> details]

NoContentAnswer == Answer("Website Content Not Available", "", <<>>)

RateLimitAnswer == Answer("API Rate Limit Reached", "", <<>>)

ConfigurationAnswer == Answer("Service Configuration Error", "", <<>>)

TimeoutAnswer == Answer("Request Timeout", "", <<>>)

\* f"... Error details: {str(e)}"
ServiceErrorAnswer(msg) == Answer("Service Error", "", msg)

\* f"... (via Groq):\n\n{response}\n\n---\n*Need more information? ..."
SuccessAnswer(response) == Answer("Datacrumbs Sales Assistant (via Groq)", response, <<>>)

\* the except branch: substring tests on str(e).lower(), in this order
ExceptionAnswer(e) ==
    LET s == Lower(e.msg)
    IN  IF Contains(KwQuota, s) \/ Contains(KwLimit, s) \/ Contains(KwRate, s)
        THEN RateLimitAnswer
        ELSE IF Contains(KwApi, s) /\ Contains(KwKey, s)
        THEN ConfigurationAnswer
        ELSE IF Contains(KwTimeout, s)
        THEN TimeoutAnswer
        ELSE ServiceErrorAnswer(e.msg)

\* sales_prompt = f"""You are a helpful sales assistant ... Question: {question}"""
SalesPrompt(question) == [template |-> "sales_prompt", question |-> question]

\* chain.run(input_documents=documents, question=sales_prompt)
ChainRunArgs(question, docs) ==
    [input_documents |-> docs, question |-> SalesPrompt(question)]

NoRequest == [input_documents |-> <<>>, question |-> [template |-> "", question |-> ""]]

\* the chat messages the "stuff" chain builds from those arguments: the
\* documents go into its system prompt, the question into one human message
StuffMessages(req) ==
    << [role |-> "system", context |-> req.input_documents,
        template |-> "stuff_system", question |-> ""],
       [role |-> "human", context |-> <<>>,
        template |-> req.question.template, question |-> req.question.question] >>

\* exceptions the model call can raise
Exceptions ==
    { [type |-> "APITimeoutError", msg |-> MsgTimedOut],
      [type |-> "ReadTimeout", msg |-> MsgReadTimeout],
      [type |-> "APITimeoutError", msg |-> MsgTimeoutGenerate],
      [type |-> "RateLimitError", msg |-> MsgRateLimit],
      [type |-> "AuthenticationError", msg |-> MsgApiKey],
      [type |-> "RuntimeError", msg |-> MsgBoom] }

TimeoutTypes == {"APITimeoutError", "ReadTimeout"}

Responses == {"We offer data courses."}

NoExc == [type |-> "", msg |-> <<>>]

NoOutcome == [kind |-> "none", response |-> "", exc |-> NoExc]

Responded(r) == [kind |-> "response", response |-> r, exc |-> NoExc]

Raised(e) == [kind |-> "raise", response |-> "", exc |-> e]

\* the value get_answer returns once the model call has ended
AnswerOf(o) ==
    IF o.kind = "response" THEN SuccessAnswer(o.response) ELSE ExceptionAnswer(o.exc)

-----------------------------------------------------------------------------
(* The script *)

\* quick_question = None
NoneQ == "<None>"

FormTexts == {"", " ", "What services do you offer?"}

QuickQuestions ==
    { "Tell me about Datacrumbs - what does the company do and what's your mission?",
      "What services and products does Datacrumbs offer? What solutions do you provide?",
      "What are your pricing options? Do you offer different packages or plans?",
      "How can I contact Datacrumbs? What support options are available?" }

\* Python truth value of current_question
Truthy(q) == q # NoneQ /\ q # ""

Session ==
    [keys |-> session_keys, website_loaded |-> website_loaded, documents |-> documents,
     chat_history |-> chat_history, cache |-> cache, fetch_log |-> fetch_log]

Store(s) ==
    /\ session_keys' = s.keys
    /\ website_loaded' = s.website_loaded
    /\ documents' = s.documents
    /\ chat_history' = s.chat_history
    /\ cache' = s.cache
    /\ fetch_log' = s.fetch_log

\* one run of the script, up to the model call when there is one
ScriptRun(ask_button, question, quick_question, lo) ==
    LET s == ScriptTop(Session, lo)
        cq == IF ask_button THEN question ELSE quick_question
    IN  /\ current_question' = cq
        /\ IF ~Truthy(cq)
           THEN /\ Store(s)
                /\ UNCHANGED <<pc, request, outcome>>
           ELSE IF s.documents = <<>>
           THEN /\ Store(AppendAndRerun(s, cq, NoContentAnswer, lo))
                /\ outcome' = NoOutcome
                /\ UNCHANGED <<pc, request>>
           ELSE /\ Store(s)
                /\ request' = ChainRunArgs(cq, s.documents)
                /\ outcome' = NoOutcome
                /\ pc' = "awaiting"

Init ==
    /\ api_key \in BOOLEAN
    /\ session_keys = {}
    /\ website_loaded = FALSE
    /\ documents = <<>>
    /\ chat_history = <<>>
    /\ cache \in {NoCache} \cup
                 {[set |-> TRUE, value |-> load_website_content(lo)] : lo \in LoaderOutcomes}
    /\ fetch_log = <<>>
    /\ pc = "idle"
    /\ current_question = NoneQ
    /\ request = NoRequest
    /\ outcome = NoOutcome
    /\ split_pc = "off"
    /\ split_in = <<>>
    /\ split_out = <<>>

\* script run without a key: the session state is initialised and only the
\* set-up instructions are shown
RunWithoutKey ==
    /\ ~api_key
    /\ pc = "idle"
    /\ Store(SessionStateInit(Session))
    /\ UNCHANGED <<api_key, pc, current_question, request, outcome, splitVars>>

\* a run in which no question source fired
Rerun ==
    /\ api_key
    /\ pc = "idle"
    /\ \E lo \in LoaderOutcomes : ScriptRun(FALSE, "", NoneQ, lo)
    /\ UNCHANGED <<api_key, splitVars>>

\* the form is submitted with the text typed into it
SubmitForm ==
    /\ api_key
    /\ pc = "idle"
    /\ \E question \in FormTexts, lo \in LoaderOutcomes :
          /\ Truthy(question) => Len(chat_history) < MaxHistory
          /\ ScriptRun(TRUE, question, NoneQ, lo)
    /\ UNCHANGED <<api_key, splitVars>>

\* one of the four quick-question buttons is clicked
ClickQuick ==
    /\ api_key
    /\ pc = "idle"
    /\ Len(chat_history) < MaxHistory
    /\ \E quick_question \in QuickQuestions, lo \in LoaderOutcomes :
          ScriptRun(FALSE, "", quick_question, lo)
    /\ UNCHANGED <<api_key, splitVars>>

\* chain.run returns: get_answer returns the framed response
ModelResponds ==
    /\ pc = "awaiting"
    /\ \E r \in Responses, lo \in LoaderOutcomes :
          /\ outcome' = Responded(r)
          /\ Store(AppendAndRerun(Session, current_question, AnswerOf(Responded(r)), lo))
    /\ pc' = "idle"
    /\ UNCHANGED <<api_key, current_question, request, splitVars>>

\* the model call raises: get_answer returns from its except branch
ModelRaises ==
    /\ pc = "awaiting"
    /\ \E e \in Exceptions, lo \in LoaderOutcomes :
          /\ outcome' = Raised(e)
          /\ Store(AppendAndRerun(Session, current_question, AnswerOf(Raised(e)), lo))
    /\ pc' = "idle"
    /\ UNCHANGED <<api_key, current_question, request, splitVars>>

Next ==
    \/ RunWithoutKey
    \/ Rerun
    \/ SubmitForm
    \/ ClickQuick
    \/ ModelResponds
    \/ ModelRaises

Spec == Init /\ [][Next]_vars

-----------------------------------------------------------------------------
(* The text splitter on its own *)

Alphabet == {"a", " ", "\n"}

Paragraph(n) == [i \in 1..n |-> "a"]

LongTexts ==
    { Join(<<Paragraph(900), Paragraph(900), Paragraph(900)>>, Separator),
      Join([i \in 1..15 |-> Paragraph(150)], Separator),
      Paragraph(2500) }

Texts == UNION {[1..n -> Alphabet] : n \in 0..MaxTextLen} \cup LongTexts

InitSplit ==
    /\ api_key = FALSE
    /\ session_keys = {}
    /\ website_loaded = FALSE
    /\ documents = <<>>
    /\ chat_history = <<>>
    /\ cache = NoCache
    /\ fetch_log = <<>>
    /\ pc = "idle"
    /\ current_question = NoneQ
    /\ request = NoRequest
    /\ outcome = NoOutcome
    /\ split_pc = "input"
    /\ split_in \in Texts
    /\ split_out = <<>>

\* text_splitter.split_documents on one document
Split ==
    /\ split_pc = "input"
    /\ split_out' = SplitDocuments(<<split_in>>)
    /\ split_pc' = "done"
    /\ UNCHANGED <<split_in, appVars>>

NextSplit == Split

SpecSplit == InitSplit /\ [][NextSplit]_vars

-----------------------------------------------------------------------------
(* Properties *)

Last(h) == h[Len(h)]

CannedFallbacks ==
    {RateLimitAnswer, ConfigurationAnswer, TimeoutAnswer, ServiceErrorAnswer(<<>>)}

\* C1: whenever the model call raised, the answer recorded for that turn is one
\* of the fixed fallback messages and does not contain the exception text str(e)
C1_FallbackHidesExceptionText ==
    outcome.kind = "raise" =>
        /\ Last(chat_history)[2] \in CannedFallbacks
        /\ ~Contains(outcome.exc.msg, Last(chat_history)[2].details)

\* C2: when the fetch that really ran failed (the loader raised or returned no
\* documents), load_website_content returned non-empty fallback content
C2_FailedFetchGivesFallbackContent ==
    \A i \in 1..Len(fetch_log) :
        fetch_log[i].kind \in {"raise", "none"} => cache.value # <<>>

\* C3: a script run with a non-empty question either puts the model call in
\* flight or appends exactly one entry for that question and is idle again; a
\* model call in flight ends, by response or by exception, only with exactly
\* one entry appended for the question asked, carrying the answer get_answer
\* returns, and with the script idle; earlier entries are never changed and
\* nothing else changes chat_history
C3_TurnAppendsOneEntry ==
    [][ LET n == Len(chat_history)
            appended == /\ Len(chat_history') = n + 1
                        /\ SubSeq(chat_history', 1, n) = chat_history
        IN  /\ (pc = "idle" /\ Truthy(current_question')) =>
                  \/ pc' = "awaiting" /\ chat_history' = chat_history
                  \/ /\ pc' = "idle"
                     /\ appended
                     /\ chat_history'[n + 1][1] = current_question'
            /\ pc = "awaiting" =>
                  /\ pc' = "idle"
                  /\ appended
                  /\ chat_history'[n + 1] = <<current_question, AnswerOf(outcome')>>
            /\ chat_history' # chat_history =>
                  pc = "awaiting" \/ Truthy(current_question')
      ]_vars

C3_Witness ==
    /\ pc = "idle"
    /\ Len(chat_history) = 2
    /\ chat_history[1][2] \in {SuccessAnswer(r) : r \in Responses}
    /\ outcome.kind = "raise"

\* C4: whenever the model call raised a timeout exception, the answer recorded
\* for that turn is the 'Request Timeout' fallback
C4_TimeoutGetsTimeoutFallback ==
    (outcome.kind = "raise" /\ outcome.exc.type \in TimeoutTypes) =>
        Last(chat_history)[2] = TimeoutAnswer

\* C5: while a model call is in flight, the messages submitted are one system
\* message at position 0, then the (question, answer) exchanges of chat_history
\* in order, then the new user question
C5_MessagesCarryHistory ==
    pc = "awaiting" =>
        LET m == StuffMessages(request)
            n == Len(chat_history)
        IN  /\ Len(m) = 2 * n + 2
            /\ m[1].role = "system"
            /\ \A i \in 2..Len(m) : m[i].role # "system"
            /\ \A i \in 1..n : /\ m[2 * i].role = "human"
                               /\ m[2 * i].question = chat_history[i][1]
                               /\ m[2 * i + 1].role = "assistant"
            /\ m[Len(m)].role = "human"
            /\ m[Len(m)].question = current_question

\* C6: once website_loaded is True it stays True and documents keeps its
\* value; documents changes only in the step that writes the first non-empty
\* load and sets website_loaded
C6_DocumentsWrittenOnce ==
    [][ /\ website_loaded => (website_loaded' /\ documents' = documents)
        /\ documents' # documents =>
              /\ ~website_loaded
              /\ documents = <<>>
              /\ documents' # <<>>
              /\ website_loaded'
      ]_vars

C6_Witness ==
    /\ website_loaded
    /\ Len(fetch_log) = 1
    /\ chat_history # <<>>
    /\ pc = "idle"

BlankQuestions == {NoneQ, "", " "}

\* C7: a script run whose question is empty, whitespace-only or absent executes
\* no turn: chat_history is unchanged and no model call is made
C7_BlankQuestionIgnored ==
    [][ (pc = "idle" /\ current_question' \in BlankQuestions) =>
            /\ chat_history' = chat_history
            /\ pc' = "idle"
            /\ request' = request
      ]_vars

RECURSIVE Reassembles(_, _, _, _)
\* chunks[i..] continue text after position end, each chunk overlapping what is
\* already covered by at most ChunkOverlap characters, and reach its last character
Reassembles(text, chunks, i, end) ==
    IF i > Len(chunks)
    THEN end = Len(text)
    ELSE \E k \in 0..(IF i = 1 THEN 0 ELSE Min(ChunkOverlap, Min(end, Len(chunks[i])))) :
            LET from == end - k + 1
                to == from + Len(chunks[i]) - 1
            IN  /\ to <= Len(text)
                /\ SubSeq(text, from, to) = chunks[i]
                /\ Reassembles(text, chunks, i + 1, to)

\* C8: the chunks the splitter produced, with the overlapping parts removed,
\* concatenate to the text it was given
C8_ChunksRoundTrip ==
    split_pc = "done" => Reassembles(split_in, split_out, 1, 0)

\* C9: a question asked while documents is empty reaches the model
C9_QuestionReachesModelWithoutContent ==
    [][ (pc = "idle" /\ Truthy(current_question') /\ documents' = <<>>) =>
            pc' = "awaiting"
      ]_vars

\* C10: website_loaded implies documents is non-empty; the loader really runs
\* at most once and the memo holds what that run returned; once the memo holds
\* an empty result, or the first real fetch gave one, website_loaded is False
\* and documents is empty
C10_FailedLoadMemoized ==
    /\ website_loaded => documents # <<>>
    /\ Len(fetch_log) <= 1
    /\ fetch_log # <<>> =>
          (cache.set /\ cache.value = load_website_content(fetch_log[1]))
    /\ (cache.set /\ cache.value = <<>>) => (~website_loaded /\ documents = <<>>)
    /\ (fetch_log # <<>> /\ load_website_content(fetch_log[1]) = <<>>) =>
          (~website_loaded /\ documents = <<>>)

C10_Witness ==
    /\ Len(fetch_log) = 1
    /\ fetch_log[1].kind = "raise"
    /\ ~website_loaded
    /\ Len(chat_history) = 2
    /\ pc = "idle"

====
